---- MODULE Spec2Model ----
(***************************************************************************)
(* Model of the task API of src/app.py: the table `tarea` behind           *)
(* Flask-SQLAlchemy on SQLite, and the handlers of /api/tareas,            *)
(* /api/tareas/<id> and /api/estadisticas.                                 *)
(*                                                                         *)
(* Spec     : requests handled one after another, one action per handler.  *)
(* SpecConc : two PUT requests on the same id, each with its own session,  *)
(*            interleaved step by step (query, assignments, commit,        *)
(*            response).                                                   *)
(***************************************************************************)
EXTENDS Integers, Sequences, FiniteSets

VARIABLES
    tareas,      \* the rows of table `tarea` as committed in tareas.db
    asignados,   \* history: every id an INSERT has been given so far
    resp,        \* the last request handled and the response it was given
    peticiones,  \* SpecConc: the PUT requests in flight, each with its session
    commits      \* SpecConc: the requests whose commit succeeded, in commit order

vars == <<tareas, asignados, resp, peticiones, commits>>

----------------------------------------------------------------------------
(* Bounds of the model *)

\* ids above MaxId are never handed out (crear_tarea is disabled instead)
MaxId == 2
\* ids a request may name: every id the table can hold and one it never holds
RutaIds == 1..(MaxId + 1)
\* the instants datetime.utcnow may return
Tiempos == {0, 1}

----------------------------------------------------------------------------
(* JSON values.  A string is a sequence of one-character strings. *)

JAbsent == [kind |-> "absent", val |-> <<>>]
JNull == [kind |-> "null", val |-> <<>>]
JTrue == [kind |-> "true", val |-> <<>>]
JFalse == [kind |-> "false", val |-> <<>>]
JStr(s) == [kind |-> "string", val |-> s]
JNum(d) == [kind |-> "number", val |-> <<d>>]

\* the strings a request may carry as texto
Textos == { <<>>, <<" ">>, <<"a">>, <<" ", "b", " ", "b", " ">> }

K_texto == <<"t", "e", "x", "t", "o">>
K_completada == <<"c", "o", "m", "p", "l", "e", "t", "a", "d", "a">>

\* str.strip(): leading and trailing whitespace removed, inner kept
RECURSIVE lstrip(_)
lstrip(s) ==
    IF s = <<>> THEN s
    ELSE IF Head(s) = " " THEN lstrip(Tail(s)) ELSE s

RECURSIVE rstrip(_)
rstrip(s) ==
    IF s = <<>> THEN s
    ELSE IF s[Len(s)] = " " THEN rstrip(SubSeq(s, 1, Len(s) - 1)) ELSE s

strip(s) == rstrip(lstrip(s))

\* a request body as request.json yields it: kind "object" carries the two
\* keys the handlers look at (JAbsent when the key is not in the object),
\* kind "array" carries its items (strings, each one element of val),
\* kind "invalid" is a body request.json cannot parse (it raises)
Obj(t, c) == [kind |-> "object", val |-> <<>>, texto |-> t, completada |-> c]
NoObj(k, v) == [kind |-> k, val |-> v, texto |-> JAbsent, completada |-> JAbsent]

TextoVals == {JAbsent, JNum("5")} \cup {JStr(s) : s \in Textos}
\* a string stands for every value the Boolean column refuses
CompletadaVals == {JAbsent, JTrue, JFalse, JStr(<<"a">>)}

ObjBodies == {Obj(t, c) : t \in TextoVals, c \in CompletadaVals}
NoObjBodies ==
    { NoObj("null", <<>>), NoObj("true", <<>>),
      NoObj("number", <<"0">>), NoObj("number", <<"5">>),
      NoObj("string", K_texto),
      NoObj("array", <<>>), NoObj("array", <<"texto">>),
      NoObj("invalid", <<>>) }
Bodies == ObjBodies \cup NoObjBodies

\* Python truth value of a parsed body: `not datos` is ~Truthy(datos)
Truthy(datos) ==
    CASE datos.kind = "null" -> FALSE
      [] datos.kind = "false" -> FALSE
      [] datos.kind = "true" -> TRUE
      [] datos.kind = "number" -> datos.val # <<"0">>
      [] datos.kind = "string" -> datos.val # <<>>
      [] datos.kind = "array" -> datos.val # <<>>
      [] datos.kind = "object" ->
            datos.texto # JAbsent \/ datos.completada # JAbsent
      [] OTHER -> FALSE

\* `key in datos` raises TypeError for None, a number and a bool
InRaises(datos) == datos.kind \in {"null", "true", "false", "number"}

KeyChars(key) == IF key = "texto" THEN K_texto ELSE K_completada

IsSubstring(k, s) ==
    \E i \in 1..(Len(s) - Len(k) + 1) : SubSeq(s, i, i + Len(k) - 1) = k

\* `key in datos` for a dict (key lookup), a list (item) and a str (substring)
In(key, datos) ==
    CASE datos.kind = "object" ->
            IF key = "texto" THEN datos.texto # JAbsent
            ELSE datos.completada # JAbsent
      [] datos.kind = "array" -> \E i \in 1..Len(datos.val) : datos.val[i] = key
      [] datos.kind = "string" -> IsSubstring(KeyChars(key), datos.val)
      [] OTHER -> FALSE

\* datos[key] raises TypeError on a list and on a str
GetItemRaises(datos) == datos.kind # "object"

----------------------------------------------------------------------------
(* The table and the model class Tarea *)

\* a row of the table; completada is JTrue, JFalse or JNull (SQL NULL)
Tarea(id, texto, completada, fecha) ==
    [id |-> id, texto |-> texto, completada |-> completada,
     fecha_creacion |-> fecha]

\* datetime.isoformat()
isoformat(dt) == [iso |-> dt]

to_dict(t) ==
    [id |-> t.id, texto |-> t.texto, completada |-> t.completada,
     fecha_creacion |-> isoformat(t.fecha_creacion)]

\* Tarea.query.get(id): the row as a sequence of length one, <<>> for None
query_get(rows, id) ==
    IF \E t \in rows : t.id = id
      THEN <<CHOOSE t \in rows : t.id = id>>
      ELSE <<>>

SetMax(S) == CHOOSE x \in S : \A y \in S : y <= x

\* the rowid SQLite gives an INSERT into a table whose key is declared
\* INTEGER PRIMARY KEY without AUTOINCREMENT: one more than the largest
\* rowid in the table, 1 when the table is empty
NextRowid(rows) ==
    IF rows = {} THEN 1 ELSE SetMax({t.id : t \in rows}) + 1

\* the Boolean column's bind processor accepts True, False and None only
BindRaises(v) == v.kind \notin {"true", "false", "null"}

\* INSERT of a new Tarea inside the session's transaction.  An attribute
\* that is None is left out of the INSERT, so the column default applies.
flush_insert(rows, texto, completada, ahora) ==
    IF BindRaises(completada)
      THEN [raise |-> TRUE, rows |-> rows, id |-> 0]
      ELSE LET id == NextRowid(rows)
               c == IF completada = JNull THEN JFalse ELSE completada
           IN [raise |-> FALSE,
               rows |-> rows \cup {Tarea(id, texto, c, ahora)},
               id |-> id]

\* mutant of Cambios: the UPDATE writes every column of the object
Cambios_mut(cargada, tarea) == {"texto", "completada"}

\* the columns of a loaded object whose value differs from the value loaded:
\* the only columns the session's UPDATE writes
Cambios(cargada, tarea) ==
    {col \in {"texto", "completada"} : tarea[col] # cargada[col]}

\* UPDATE tarea SET <changed columns> WHERE id = ? inside the transaction;
\* no statement at all when nothing changed
flush_update(rows, cargada, tarea) ==
    LET cols == Cambios(cargada, tarea) IN
    IF cols = {} THEN [raise |-> FALSE, rows |-> rows]
    ELSE IF "completada" \in cols /\ BindRaises(tarea.completada)
      THEN [raise |-> TRUE, rows |-> rows]
    ELSE IF ~\E t \in rows : t.id = tarea.id
      THEN [raise |-> TRUE, rows |-> rows]
    ELSE [raise |-> FALSE,
          rows |-> { IF t.id = tarea.id
                       THEN [t EXCEPT
                               !.texto = IF "texto" \in cols
                                           THEN tarea.texto ELSE @,
                               !.completada = IF "completada" \in cols
                                                THEN tarea.completada ELSE @]
                       ELSE t : t \in rows }]

\* mutant of flush_delete: the DELETE has no WHERE clause
flush_delete_mut(rows, tarea) ==
    IF ~\E t \in rows : t.id = tarea.id
      THEN [raise |-> TRUE, rows |-> rows]
      ELSE [raise |-> FALSE, rows |-> {}]

\* DELETE FROM tarea WHERE id = ? inside the transaction
flush_delete(rows, tarea) ==
    IF ~\E t \in rows : t.id = tarea.id
      THEN [raise |-> TRUE, rows |-> rows]
      ELSE [raise |-> FALSE, rows |-> {t \in rows : t.id # tarea.id}]

\* mutant of rollback: what the transaction wrote stays
rollback_mut(committed, tx) == tx

\* db.session.rollback(): what the transaction wrote is discarded
rollback(committed, tx) == committed

----------------------------------------------------------------------------
(* The handlers, as functions of the table and the request *)

Respuesta(metodo, id, status, cuerpo, stats) ==
    [metodo |-> metodo, id |-> id, status |-> status,
     cuerpo |-> cuerpo, stats |-> stats]

\* what a handler leaves: the table and the response
Resultado(rows, status, cuerpo) ==
    [rows |-> rows, status |-> status, cuerpo |-> cuerpo]

\* GET /api/tareas: Tarea.query.all() yields the rows in rowid order
RECURSIVE listar(_)
listar(rows) ==
    IF rows = {} THEN <<>>
    ELSE LET t == CHOOSE x \in rows : \A y \in rows : x.id <= y.id
         IN <<to_dict(t)>> \o listar(rows \ {t})

\* GET /api/tareas/<id>
obtener(rows, id) ==
    LET tarea == query_get(rows, id) IN
    IF tarea = <<>>
      THEN Resultado(rows, 404, <<>>)
      ELSE Resultado(rows, 200, <<to_dict(tarea[1])>>)

\* mutant of crear_validar: the texto is not checked for emptiness
crear_validar_mut(datos) ==
    IF datos.kind = "invalid" THEN "raise"
    ELSE IF ~Truthy(datos) THEN "falta"
    ELSE IF InRaises(datos) THEN "raise"
    ELSE IF ~In("texto", datos) THEN "falta"
    ELSE IF GetItemRaises(datos) THEN "raise"
    ELSE IF datos.texto.kind # "string" THEN "raise"
    ELSE "ok"

\* the validation of crear_tarea: "raise", "falta", "vacio" or "ok"
crear_validar(datos) ==
    IF datos.kind = "invalid" THEN "raise"
    ELSE IF ~Truthy(datos) THEN "falta"
    ELSE IF InRaises(datos) THEN "raise"
    ELSE IF ~In("texto", datos) THEN "falta"
    ELSE IF GetItemRaises(datos) THEN "raise"
    ELSE IF datos.texto.kind # "string" THEN "raise"
    ELSE IF strip(datos.texto.val) = <<>> THEN "vacio"
    ELSE "ok"

\* POST /api/tareas; fault: the COMMIT fails
crear(rows, datos, ahora, fault) ==
    LET v == crear_validar(datos) IN
    IF v = "raise" THEN Resultado(rollback(rows, rows), 500, <<>>)
    ELSE IF v \in {"falta", "vacio"} THEN Resultado(rows, 400, <<>>)
    ELSE
      LET completada == IF datos.completada = JAbsent
                          THEN JFalse ELSE datos.completada
          tx == flush_insert(rows, strip(datos.texto.val), completada, ahora)
      IN IF tx.raise \/ fault
           THEN Resultado(rollback(rows, tx.rows), 500, <<>>)
           ELSE Resultado(tx.rows, 201,
                          <<to_dict(query_get(tx.rows, tx.id)[1])>>)

\* mutant of aplicar: completada is assigned datos.get('completada', False)
aplicar_mut(tarea, datos) ==
    IF datos.kind \in {"invalid", "null", "true", "false", "number"}
      THEN [raise |-> TRUE, tarea |-> tarea]
    ELSE IF In("texto", datos)
            /\ (GetItemRaises(datos) \/ datos.texto.kind # "string")
      THEN [raise |-> TRUE, tarea |-> tarea]
    ELSE IF GetItemRaises(datos)
      THEN [raise |-> TRUE, tarea |-> tarea]
    ELSE
      LET t1 == IF In("texto", datos)
                  THEN [tarea EXCEPT !.texto = strip(datos.texto.val)]
                  ELSE tarea
      IN [raise |-> FALSE,
          tarea |-> [t1 EXCEPT !.completada =
                        IF datos.completada = JAbsent
                          THEN JFalse ELSE datos.completada]]

\* lines 152-158 of actualizar_tarea: the assignments to the loaded object
aplicar(tarea, datos) ==
    IF datos.kind = "invalid" \/ InRaises(datos)
      THEN [raise |-> TRUE, tarea |-> tarea]
    ELSE IF In("texto", datos)
            /\ (GetItemRaises(datos) \/ datos.texto.kind # "string")
      THEN [raise |-> TRUE, tarea |-> tarea]
    ELSE
      LET t1 == IF In("texto", datos)
                  THEN [tarea EXCEPT !.texto = strip(datos.texto.val)]
                  ELSE tarea
      IN IF In("completada", datos) /\ GetItemRaises(datos)
           THEN [raise |-> TRUE, tarea |-> t1]
         ELSE IF In("completada", datos)
           THEN [raise |-> FALSE,
                 tarea |-> [t1 EXCEPT !.completada = datos.completada]]
         ELSE [raise |-> FALSE, tarea |-> t1]

\* mutant of actualizar: request.json is read before the task is looked up
actualizar_mut(rows, id, datos, fault) ==
    IF datos.kind = "invalid" \/ InRaises(datos)
      THEN [rows |-> rows, status |-> 500, cuerpo |-> <<>>]
    ELSE IF query_get(rows, id) = <<>>
      THEN [rows |-> rows, status |-> 404, cuerpo |-> <<>>]
    ELSE
      LET cargada == query_get(rows, id)
          a == aplicar(cargada[1], datos)
          tx == flush_update(rows, cargada[1], a.tarea)
      IN IF a.raise \/ tx.raise \/ fault
           THEN [rows |-> rows, status |-> 500, cuerpo |-> <<>>]
           ELSE [rows |-> tx.rows, status |-> 200,
                 cuerpo |-> <<to_dict(query_get(tx.rows, id)[1])>>]

\* PUT /api/tareas/<id>; fault: the COMMIT fails
actualizar(rows, id, datos, fault) ==
    LET cargada == query_get(rows, id) IN
    IF cargada = <<>> THEN Resultado(rows, 404, <<>>)
    ELSE
      LET a == aplicar(cargada[1], datos) IN
      IF a.raise THEN Resultado(rollback(rows, rows), 500, <<>>)
      ELSE
        LET tx == flush_update(rows, cargada[1], a.tarea) IN
        IF tx.raise \/ fault
          THEN Resultado(rollback(rows, tx.rows), 500, <<>>)
          ELSE Resultado(tx.rows, 200,
                         <<to_dict(query_get(tx.rows, id)[1])>>)

\* DELETE /api/tareas/<id>; fault: the COMMIT fails
eliminar(rows, id, fault) ==
    LET tarea == query_get(rows, id) IN
    IF tarea = <<>> THEN Resultado(rows, 404, <<>>)
    ELSE
      LET tx == flush_delete(rows, tarea[1]) IN
      IF tx.raise \/ fault
        THEN Resultado(rollback(rows, tx.rows), 500, <<>>)
        ELSE Resultado(tx.rows, 200, <<>>)

\* whether the handler gets as far as db.session.commit(), the only place
\* where `fault` can strike (crear also reads the clock only there)
crear_llega_commit(datos) == crear_validar(datos) = "ok"

actualizar_llega_commit(rows, id, datos) ==
    /\ query_get(rows, id) # <<>>
    /\ ~aplicar(query_get(rows, id)[1], datos).raise

eliminar_llega_commit(rows, id) == query_get(rows, id) # <<>>

\* mutant of estadisticas: completadas is not subtracted from pendientes
estadisticas_mut(rows) ==
    LET total == Cardinality(rows)
        completadas == Cardinality({t \in rows : t.completada = JTrue})
    IN <<total, completadas, total>>

\* GET /api/estadisticas: <<total, completadas, pendientes>>
estadisticas(rows) ==
    LET total == Cardinality(rows)
        completadas == Cardinality({t \in rows : t.completada = JTrue})
        pendientes == total - completadas
    IN <<total, completadas, pendientes>>

----------------------------------------------------------------------------
(* Spec: one request at a time *)

SinPeticiones == <<>>

Init ==
    /\ tareas = {}
    /\ asignados = {}
    /\ resp = Respuesta("none", 0, 0, <<>>, <<>>)
    /\ peticiones = SinPeticiones
    /\ commits = <<>>

obtener_tareas ==
    /\ resp' = Respuesta("LIST", 0, 200, listar(tareas), <<>>)
    /\ UNCHANGED <<tareas, asignados, peticiones, commits>>

obtener_tarea(id) ==
    LET r == obtener(tareas, id) IN
    /\ resp' = Respuesta("GET", id, r.status, r.cuerpo, <<>>)
    /\ UNCHANGED <<tareas, asignados, peticiones, commits>>

crear_tarea(datos, ahora, fault) ==
    LET r == crear(tareas, datos, ahora, fault) IN
    /\ crear_llega_commit(datos) \/ (~fault /\ ahora = 0)
    /\ r.status = 201 => NextRowid(tareas) <= MaxId
    /\ tareas' = r.rows
    /\ resp' = Respuesta("POST", 0, r.status, r.cuerpo, <<>>)
    /\ asignados' = IF r.status = 201
                      THEN asignados \cup {r.cuerpo[1].id} ELSE asignados
    /\ UNCHANGED <<peticiones, commits>>

actualizar_tarea(id, datos, fault) ==
    LET r == actualizar(tareas, id, datos, fault) IN
    /\ fault => actualizar_llega_commit(tareas, id, datos)
    /\ tareas' = r.rows
    /\ resp' = Respuesta("PUT", id, r.status, r.cuerpo, <<>>)
    /\ UNCHANGED <<asignados, peticiones, commits>>

eliminar_tarea(id, fault) ==
    LET r == eliminar(tareas, id, fault) IN
    /\ fault => eliminar_llega_commit(tareas, id)
    /\ tareas' = r.rows
    /\ resp' = Respuesta("DELETE", id, r.status, r.cuerpo, <<>>)
    /\ UNCHANGED <<asignados, peticiones, commits>>

obtener_estadisticas ==
    /\ resp' = Respuesta("STATS", 0, 200, <<>>, estadisticas(tareas))
    /\ UNCHANGED <<tareas, asignados, peticiones, commits>>

Next ==
    \/ obtener_tareas
    \/ \E id \in RutaIds : obtener_tarea(id)
    \/ \E datos \in Bodies, ahora \in Tiempos, fault \in BOOLEAN :
          crear_tarea(datos, ahora, fault)
    \/ \E id \in RutaIds, datos \in Bodies, fault \in BOOLEAN :
          actualizar_tarea(id, datos, fault)
    \/ \E id \in RutaIds, fault \in BOOLEAN : eliminar_tarea(id, fault)
    \/ obtener_estadisticas

Spec == Init /\ [][Next]_vars

----------------------------------------------------------------------------
(* SpecConc: two PUT requests on the same id, served by two threads.  Each *)
(* request has its own session: the object it loaded, and the assignments  *)
(* made to it, are private until its commit.                               *)

Reqs == {1, 2}

\* the bodies of the concurrent requests
ConcBodies == ObjBodies

\* the id both requests name
ConcId == 1

Peticion(pc, datos, cargada, tarea, status, cuerpo) ==
    [pc |-> pc, id |-> ConcId, datos |-> datos, cargada |-> cargada,
     tarea |-> tarea, status |-> status, cuerpo |-> cuerpo]

\* tables the sequential handlers leave with a task at ConcId
ConcTablas ==
    { {Tarea(ConcId, t, c, 0)} \cup otras :
        t \in {strip(x) : x \in Textos} \ {<<>>},
        c \in {JTrue, JFalse},
        otras \in {{}, {Tarea(ConcId + 1, <<"a">>, JFalse, 1)}} }

InitConc ==
    /\ tareas \in ConcTablas
    /\ asignados = {t.id : t \in tareas}
    /\ resp = Respuesta("none", 0, 0, <<>>, <<>>)
    /\ peticiones \in
         [Reqs -> {Peticion("inicio", d, <<>>, <<>>, 0, <<>>) : d \in ConcBodies}]
    /\ commits = <<>>

\* tarea = Tarea.query.get(id), and the 404 when there is none
put_query(r) ==
    LET p == peticiones[r]
        tarea == query_get(tareas, p.id)
    IN /\ p.pc = "inicio"
       /\ peticiones' =
            [peticiones EXCEPT ![r] =
               IF tarea = <<>>
                 THEN [p EXCEPT !.pc = "fin", !.status = 404]
                 ELSE [p EXCEPT !.pc = "cargada", !.cargada = tarea,
                                !.tarea = tarea]]
       /\ UNCHANGED <<tareas, asignados, resp, commits>>

\* datos = request.json and the assignments to the loaded object
put_asignar(r) ==
    LET p == peticiones[r]
        a == aplicar(p.tarea[1], p.datos)
    IN /\ p.pc = "cargada"
       /\ peticiones' =
            [peticiones EXCEPT ![r] =
               IF a.raise
                 THEN [p EXCEPT !.pc = "fin", !.status = 500]
                 ELSE [p EXCEPT !.pc = "asignada", !.tarea = <<a.tarea>>]]
       /\ UNCHANGED <<tareas, asignados, resp, commits>>

\* db.session.commit(): the UPDATE of the changed columns and the COMMIT
put_commit(r, fault) ==
    LET p == peticiones[r]
        tx == flush_update(tareas, p.cargada[1], p.tarea[1])
        raised == tx.raise \/ fault
    IN /\ p.pc = "asignada"
       /\ tareas' = IF raised THEN rollback(tareas, tx.rows) ELSE tx.rows
       /\ commits' = IF raised THEN commits ELSE Append(commits, r)
       /\ peticiones' =
            [peticiones EXCEPT ![r] =
               IF raised
                 THEN [p EXCEPT !.pc = "fin", !.status = 500]
                 ELSE [p EXCEPT !.pc = "commit"]]
       /\ UNCHANGED <<asignados, resp>>

\* jsonify(tarea.to_dict()): the commit expired the object, so it is read
\* again from the table
put_responder(r) ==
    LET p == peticiones[r]
        tarea == query_get(tareas, p.id)
    IN /\ p.pc = "commit"
       /\ peticiones' =
            [peticiones EXCEPT ![r] =
               IF tarea = <<>>
                 THEN [p EXCEPT !.pc = "fin", !.status = 500]
                 ELSE [p EXCEPT !.pc = "fin", !.status = 200,
                                !.cuerpo = <<to_dict(tarea[1])>>]]
       /\ UNCHANGED <<tareas, asignados, resp, commits>>

NextConc ==
    \/ \E r \in Reqs : put_query(r)
    \/ \E r \in Reqs : put_asignar(r)
    \/ \E r \in Reqs, fault \in BOOLEAN : put_commit(r, fault)
    \/ \E r \in Reqs : put_responder(r)

SpecConc == InitConc /\ [][NextConc]_vars

----------------------------------------------------------------------------
(* The properties *)

\* a string with a character that is not whitespace
TieneTexto(s) == \E i \in 1..Len(s) : s[i] # " "

Fila(rows, id) == CHOOSE t \in rows : t.id = id
Existe(rows, id) == \E t \in rows : t.id = id

\* C1: every stored task has a texto that is non-empty after trimming,
\* whatever POST, PUT and DELETE requests were served
C1_TextoNuncaVacio == \A t \in tareas : TieneTexto(t.texto)

\* C2: the id a successful POST assigns was never assigned before, not even
\* to a task deleted since, and no two stored tasks share an id
C2_IdNuncaReusado ==
    [][ /\ (resp'.metodo = "POST" /\ resp'.status = 201)
             => resp'.cuerpo[1].id \notin asignados
        /\ \A t, u \in tareas' : t.id = u.id => t = u ]_vars

\* the bodies C3 is about: {} (no key at all), an object without texto, an
\* object whose texto is empty or whitespace-only
C3_Bodies ==
    {d \in ObjBodies :
        \/ d.texto = JAbsent
        \/ d.texto.kind = "string" /\ ~TieneTexto(d.texto.val)}

C3_Inv ==
    \A d \in C3_Bodies, ahora \in Tiempos, fault \in BOOLEAN :
        LET r == crear(tareas, d, ahora, fault)
        IN r.status = 400 /\ r.rows = tareas

\* C3: a POST with {}, without texto, or with an empty or whitespace-only
\* texto is answered 400 and leaves the stored tasks exactly as they were
C3_PostInvalido400 ==
    /\ []C3_Inv
    /\ [][(resp'.metodo = "POST" /\ resp'.status = 400) => tareas' = tareas]_vars

C3_Witness ==
    resp.metodo = "POST" /\ resp.status = 400 /\ Cardinality(tareas) = 2

\* C4: GET, PUT (whatever its body) and DELETE on an id that no stored task
\* has are answered 404 and leave the stored tasks unchanged
C4_NoExiste404 ==
    [][(resp'.metodo \in {"GET", "PUT", "DELETE"} /\ ~Existe(tareas, resp'.id))
          => (resp'.status = 404 /\ tareas' = tareas)]_vars

C4_Witness ==
    /\ resp.metodo = "PUT" /\ resp.status = 404
    /\ tareas # {} /\ ~Existe(tareas, resp.id)

\* whether key f is present in the request body
Presente(f, d) == d.kind = "object" /\ d[f] # JAbsent

C5_Inv ==
    \A id \in RutaIds, d \in Bodies :
        LET r == actualizar(tareas, id, d, FALSE) IN
        (Existe(tareas, id) /\ r.status = 200) =>
            /\ Existe(r.rows, id)
            /\ \A f \in {"texto", "completada"} :
                  ~Presente(f, d) => Fila(r.rows, id)[f] = Fila(tareas, id)[f]
            /\ d = Obj(JAbsent, JAbsent) =>
                  /\ r.rows = tareas
                  /\ r.cuerpo = <<to_dict(Fila(tareas, id))>>

C5_Empty200 ==
    \A id \in RutaIds :
        Existe(tareas, id) =>
            actualizar(tareas, id, Obj(JAbsent, JAbsent), FALSE).status = 200

\* C5: a successful PUT changes only the fields of task id present in its
\* body; id and fecha_creacion stay, every other task stays, and a PUT with
\* {} changes nothing and returns 200 with the unchanged task
C5_PutSoloCampos ==
    /\ []C5_Inv
    /\ []C5_Empty200
    /\ [][(resp'.metodo = "PUT" /\ resp'.status = 200) =>
            /\ Existe(tareas, resp'.id) /\ Existe(tareas', resp'.id)
            /\ Fila(tareas', resp'.id).fecha_creacion
                 = Fila(tareas, resp'.id).fecha_creacion
            /\ {t \in tareas' : t.id # resp'.id}
                 = {t \in tareas : t.id # resp'.id}
            /\ Cardinality(tareas') = Cardinality(tareas)
            /\ resp'.cuerpo = <<to_dict(Fila(tareas', resp'.id))>>]_vars

C5_Witness ==
    /\ resp.metodo = "PUT" /\ resp.status = 200
    /\ Cardinality(tareas) = 2
    /\ resp.cuerpo[1].completada = JTrue
    /\ resp.cuerpo[1].fecha_creacion = isoformat(1)
    /\ \E t \in tareas : t.id # resp.id /\ t.completada = JFalse

\* C6: with no request in flight, GET /api/estadisticas answers 200 with
\* total = the number of stored tasks, completadas = the number of those
\* whose completada is true, pendientes = total - completadas
C6_Estadisticas ==
    resp.metodo = "STATS" =>
        LET N == Cardinality({t.id : t \in tareas})
            K == Cardinality({t.id : t \in {u \in tareas : u.completada = JTrue}})
        IN resp.status = 200 /\ resp.stats = <<N, K, N - K>>

C6_Witness == resp.metodo = "STATS" /\ resp.stats = <<2, 1, 1>>

\* C7: a successful DELETE removes exactly the task named: GET on its id
\* then answers 404, the count is one less, every other task is unchanged
C7_DeleteExacto ==
    [][(resp'.metodo = "DELETE" /\ resp'.status = 200) =>
          /\ Existe(tareas, resp'.id)
          /\ tareas' = tareas \ {Fila(tareas, resp'.id)}
          /\ obtener(tareas', resp'.id).status = 404
          /\ Cardinality(tareas') = Cardinality(tareas) - 1]_vars

C7_Witness ==
    resp.metodo = "DELETE" /\ resp.status = 200 /\ Cardinality(tareas) = 1

C8_Inv ==
    /\ \A d \in Bodies, ahora \in Tiempos :
          crear_llega_commit(d) =>
              LET r == crear(tareas, d, ahora, TRUE)
              IN r.status = 500 /\ r.rows = tareas
    /\ \A id \in RutaIds, d \in Bodies :
          actualizar_llega_commit(tareas, id, d) =>
              LET r == actualizar(tareas, id, d, TRUE)
              IN r.status = 500 /\ r.rows = tareas
    /\ \A id \in RutaIds :
          eliminar_llega_commit(tareas, id) =>
              LET r == eliminar(tareas, id, TRUE)
              IN r.status = 500 /\ r.rows = tareas

\* C8: when the commit of a create, update or delete fails the answer is
\* 500 and the stored tasks are exactly what they were before the request
C8_FalloCommit ==
    /\ []C8_Inv
    /\ [][resp'.status = 500 => tareas' = tareas]_vars

\* a DELETE raises nowhere but in its commit
C8_Witness ==
    resp.metodo = "DELETE" /\ resp.status = 500 /\ Cardinality(tareas) = 2

\* the value a PUT body gives field f
Valor(f, d) == IF f = "texto" THEN strip(d.texto.val) ELSE d.completada

AmbosCommit ==
    /\ Len(commits) = 2
    /\ \A r \in Reqs : peticiones[r].pc = "fin" /\ peticiones[r].status = 200

\* the fields both requests set
CamposDeAmbos ==
    {f \in {"texto", "completada"} :
        \A r \in Reqs : Presente(f, peticiones[r].datos)}

\* C9 as claimed: once two concurrent PUTs on the same id have both
\* committed, every field both set holds the value of the request that
\* committed last
C9_UltimoCommitGana ==
    AmbosCommit =>
        \A f \in CamposDeAmbos :
            Fila(tareas, ConcId)[f] = Valor(f, peticiones[commits[2]].datos)

\* what the commit of request r leaves in field f of a row that held v
TrasCommit(f, r, v) ==
    LET p == peticiones[r] IN
    IF Valor(f, p.datos) # p.cargada[1][f] THEN Valor(f, p.datos) ELSE v

\* C9 amended: the value of the request that committed last is stored when
\* it differs from the value that request had read; when it is equal that
\* commit does not write the field, and what the earlier commit left stays
C9_UltimoCambioGana ==
    AmbosCommit =>
        \A f \in CamposDeAmbos :
            Fila(tareas, ConcId)[f] =
                TrasCommit(f, commits[2],
                    TrasCommit(f, commits[1],
                               peticiones[commits[1]].cargada[1][f]))

C9_Witness ==
    /\ AmbosCommit
    /\ "completada" \in CamposDeAmbos
    /\ peticiones[1].datos.completada # peticiones[2].datos.completada
    /\ Fila(tareas, ConcId).completada
         # peticiones[commits[2]].datos.completada

\* the bodies C10 is about: not a JSON object, or texto not a string
C10_Bodies ==
    NoObjBodies \cup
    {d \in ObjBodies : d.texto # JAbsent /\ d.texto.kind # "string"}

\* C10: a POST whose body is not a JSON object, or whose texto is not a
\* string, is answered 400, never 500, and leaves the stored tasks unchanged
C10_Malformado400 ==
    [][\A d \in C10_Bodies :
          crear_tarea(d, 0, FALSE) => (resp'.status = 400 /\ tareas' = tareas)]_vars

====
